---- MODULE Spec2Model ----
(***************************************************************************)
(* termgrep: search_file's frame loop and match-coalescing callback        *)
(* (src/src/main.rs).  One file is searched: frames are pulled lazily from *)
(* frames(), flattened to frame_text, scanned by the pattern matcher, and  *)
(* every match callback updates the open span `mi`; spans are handed to    *)
(* display_match on a gap and after the loop.  main calls search_file for   *)
(* each file in turn.  The pure parts (flattening, highlighting) and the   *)
(* events()/frames() pipeline have specifications of their own below.      *)
(***************************************************************************)
EXTENDS Integers, Sequences, FiniteSets, TLC

\* ------------------------------------------------------------------ bounds
MaxFrames == 4      \* frames pulled from one recording
MaxTime   == 1      \* event timestamps are drawn from 0..MaxTime
MaxCeil   == 2      \* explicit -m values are drawn from 0..MaxCeil
NumFiles  == 2      \* files on the command line (MainSpec)
MaxFramesMain == 3  \* frames pulled from each recording when several files
                    \* are searched (MainSpec)
MaxRecords == 4     \* records read from one recording in EventSpec
MaxTextLen == 3     \* length of the texts displayed in PresentSpec
MaxRanges  == 2     \* ranges of the spans displayed in PresentSpec
FlatHeight == 3     \* rows of the viewports flattened in FlattenSpec
FlatWidth  == 2     \* columns of the viewports flattened in FlattenSpec

\* ------------------------------------------------------ program constants
\* Vt::new(1000, 100): the viewport, scaled down to Width columns and
\* Height rows.
Width  == 1
Height == 2

\* usize::MAX, the ceiling when -m is absent (unwrap_or(usize::MAX)).
\* Written as the largest integer TLC represents; match_count stays far
\* below it in the model as in the program.
UsizeMax == 2147483647

\* ------------------------------------------------------------- characters
NL == "\n"
SP == " "
RowChars == {"x", SP}
IsWhitespace(ch) == ch \in {SP, NL}

\* the pattern handed to the matcher: a one-character literal
PatternChar == "x"

\* ------------------------------------------------------------ viewports
Row == [1..Width -> RowChars]
Viewports == [1..Height -> Row]
Times == 0..MaxTime

\* str.trim_end(): the length of s without its trailing whitespace
RECURSIVE TrimEndLen(_)
TrimEndLen(s) ==
    IF Len(s) = 0 THEN 0
    ELSE IF IsWhitespace(s[Len(s)]) THEN TrimEndLen(SubSeq(s, 1, Len(s) - 1))
    ELSE Len(s)

\* one iteration of `for chars in lines.iter()` (main.rs 329-336)
FlattenRow(text, chars) ==
    LET at        == Len(text)
        extended  == text \o chars
        truncated == SubSeq(extended, 1, TrimEndLen(extended))
    IN  IF Len(truncated) > at THEN Append(truncated, NL) ELSE truncated

\* frame_text after rows r.. of the viewport were visited, starting from text
RECURSIVE FlattenFrom(_, _, _)
FlattenFrom(lines, r, text) ==
    IF r > Len(lines) THEN text
    ELSE FlattenFrom(lines, r + 1, FlattenRow(text, lines[r]))

\* frame_text.clear() followed by the row loop
Flatten(lines) == FlattenFrom(lines, 1, <<>>)

\* db.scan(&frame_text, ...): the occurrences the matcher reports for a
\* text, as (from, to) byte offsets, ascending and non-overlapping.
RECURSIVE ScanFrom(_, _)
ScanFrom(text, p) ==
    IF p > Len(text) THEN <<>>
    ELSE IF text[p] = PatternChar
         THEN <<[from |-> p - 1, to |-> p]>> \o ScanFrom(text, p + 1)
         ELSE ScanFrom(text, p + 1)

Scan(text) == ScanFrom(text, 1)

\* ------------------------------------------------------------------ state
VARIABLES
    list_only,      \* args.list_only
    max_matches,    \* search_file's max_matches
    frames,         \* frames pulled so far: [time, lines], index i is frames[i+1]
    frame_text,     \* search_file's frame_text buffer
    k,              \* position of the next match callback within the scan
    match_count,    \* search_file's match_count
    mi,             \* Option<MatchData>: <<>> is None, <<m>> is Some(m)
    terminated,     \* the scan returned Err(ScanTerminated)
    displayed,      \* the MatchData passed to display_match for this file, in order
    printed,        \* what display_match printed for this file, in order
    pc,             \* "header", "pull", "scan", "flush", "done", "panicked"
    file,           \* position of main's loop in args.files, from 1
    fed,            \* events()/frames(): the records read so far
    prev_cursor,    \* frames(): prev_cursor, <<>> is None
    fn_in,          \* argument of the pure function being applied
    fn_out          \* <<>>, or <<its result>>

vars == <<list_only, max_matches, frames, frame_text, k, match_count, mi,
          terminated, displayed, printed, pc, file, fed, prev_cursor,
          fn_in, fn_out>>

\* the state of one search_file call, and the state that is not main's
search == <<frames, frame_text, k, match_count, mi, terminated, displayed,
            printed>>
side == <<fed, prev_cursor, fn_in, fn_out>>

\* mutant: main leaves -m alone in list-only mode
EffectiveMaxMatchesKept(lo, m) == m

\* main (484-487): list-only needs one match only
EffectiveMaxMatches(lo, m) == IF lo THEN 1 ELSE m

\* args.max_matches.unwrap_or(usize::MAX)
ArgsMaxMatches == (0..MaxCeil) \cup {UsizeMax}

\* i of the frame being scanned (enumerate() counts from 0)
CurFrame == Len(frames) - 1
CurTime  == frames[Len(frames)].time
CurOccs  == Scan(frame_text)

\* ------------------------------------------------------------- MatchData
\* None arm of `match mi` (346-355)
OpenSpan(i, time, text, r) ==
    [start_frame |-> i, end_frame |-> i, start_ts |-> time, end_ts |-> time,
     last_frame_text |-> text, match_ranges |-> <<r>>]

\* mutant: adjacency measured between matching frames, not frame indices
ContiguousNextMatching(i, m) == i > m.end_frame

\* mutant: one frame without a match does not end the span
ContiguousOrSkipOne(i, m) == i = m.end_frame + 1 \/ i = m.end_frame + 2

\* `if i == mi.end_frame + 1` (363)
Contiguous(i, m) == i = m.end_frame + 1

\* `else if i == mi.end_frame` (372)
SameFrame(i, m) == i = m.end_frame

\* mutant: the contiguous arm forgets `mi.end_ts = time`
ExtendSpanStaleEndTs(m, i, time, text, r) ==
    [m EXCEPT !.end_frame = i,
              !.last_frame_text = text, !.match_ranges = <<r>>]

\* mutant: the contiguous arm forgets to replace last_frame_text
ExtendSpanStaleText(m, i, time, text, r) ==
    [m EXCEPT !.end_frame = i, !.end_ts = time, !.match_ranges = <<r>>]

\* mutant: the contiguous arm forgets `mi.match_ranges.clear()`
ExtendSpanMergesRanges(m, i, time, text, r) ==
    [m EXCEPT !.end_frame = i, !.end_ts = time,
              !.last_frame_text = text, !.match_ranges = Append(@, r)]

\* contiguous arm (365-370)
ExtendSpan(m, i, time, text, r) ==
    [m EXCEPT !.end_frame = i, !.end_ts = time,
              !.last_frame_text = text, !.match_ranges = <<r>>]

\* mutant: the same-frame arm replaces the ranges instead of appending
AppendRangeReplaces(m, r) == [m EXCEPT !.match_ranges = <<r>>]

\* same-frame arm (374)
AppendRange(m, r) == [m EXCEPT !.match_ranges = Append(@, r)]

\* mutant: the not-contiguous arm keeps extending the span it displayed
RestartSpanKeepsStart(m, i, time, text, r) ==
    [m EXCEPT !.end_frame = i, !.end_ts = time,
              !.last_frame_text = text, !.match_ranges = <<r>>]

\* mutant: the not-contiguous arm forgets `mi.end_frame = i`
RestartSpanStaleEnd(m, i, time, text, r) ==
    [m EXCEPT !.start_frame = i,
              !.start_ts = time, !.end_ts = time,
              !.last_frame_text = text, !.match_ranges = <<r>>]

\* not-contiguous arm after display_match (382-389)
RestartSpan(m, i, time, text, r) ==
    [m EXCEPT !.start_frame = i, !.end_frame = i,
              !.start_ts = time, !.end_ts = time,
              !.last_frame_text = text, !.match_ranges = <<r>>]

\* mutant: the callback stops as soon as the ceiling is reached
CeilingReached(count, max) == count >= max

\* mutant: the ceiling is compared with the counter before its increment
CeilingOffByOne(count, max) == count - 1 > max

\* `if match_count > max_matches` (340)
CeilingExceeded(count, max) == count > max

\* display_match (259-284): what one call prints
PrintedFor(m, lo) ==
    IF lo THEN [kind |-> "filename"]
    ELSE [kind |-> "span", start_frame |-> m.start_frame,
          end_frame |-> m.end_frame,
          nframes |-> m.end_frame - m.start_frame + 1,
          start_ts |-> m.start_ts, end_ts |-> m.end_ts]

\* ------------------------------------------------------------------- Init
Init ==
    /\ list_only \in BOOLEAN
    /\ \E m \in ArgsMaxMatches : max_matches = EffectiveMaxMatches(list_only, m)
    /\ frames = <<>>
    /\ frame_text = <<>>
    /\ k = 1
    /\ match_count = 0
    /\ mi = <<>>
    /\ terminated = FALSE
    /\ displayed = <<>>
    /\ printed = <<>>
    /\ pc = "header"
    /\ file = 1
    /\ fed = <<>>
    /\ prev_cursor = <<>>
    /\ fn_in = <<>>
    /\ fn_out = <<>>

\* ---------------------------------------------------------------- actions
\* mutant: the match counter outlives the call
InitialMatchCountCarried(prev) == prev

\* `let mut match_count = 0` (314)
InitialMatchCount(prev) == 0

\* search_file reads the header line and unwraps its parse (304-307); with
\* a header that parsed, the locals are initialised (311-326).  A header
\* that does not parse makes unwrap() panic: the process aborts.
ReadHeader ==
    /\ pc = "header"
    /\ \E header_ok \in BOOLEAN :
          IF header_ok
          THEN /\ match_count' = InitialMatchCount(match_count)
               /\ mi' = <<>>
               /\ frames' = <<>>
               /\ frame_text' = <<>>
               /\ k' = 1
               /\ terminated' = FALSE
               /\ displayed' = <<>>
               /\ printed' = <<>>
               /\ pc' = "pull"
          ELSE /\ pc' = "panicked"
               /\ UNCHANGED search
    /\ UNCHANGED <<list_only, max_matches, file, side>>

\* main's `for file in &args.files` goes on to the next file (495-497)
NextFile ==
    /\ pc = "done"
    /\ file < NumFiles
    /\ file' = file + 1
    /\ pc' = "header"
    /\ UNCHANGED <<list_only, max_matches, search, side>>

\* the frame loop pulls the next frame, rebuilds frame_text and starts the
\* scan (327-337)
PullFrame(limit) ==
    /\ pc = "pull"
    /\ Len(frames) < limit
    /\ \E time \in Times, lines \in Viewports :
          /\ frames' = Append(frames, [time |-> time, lines |-> lines])
          /\ frame_text' = Flatten(lines)
    /\ k' = 1
    /\ pc' = "scan"
    /\ UNCHANGED <<list_only, max_matches, match_count, mi, terminated,
                   displayed, printed>>
    /\ UNCHANGED <<file, side>>

NextFrame == PullFrame(MaxFrames)

\* the same step in a run over several files
NextFrameMain == PullFrame(MaxFramesMain)

\* frames() is exhausted: the loop ends (327)
EndOfStream ==
    /\ pc = "pull"
    /\ pc' = "flush"
    /\ UNCHANGED <<list_only, max_matches, frames, frame_text, k, match_count,
                   mi, terminated, displayed, printed>>
    /\ UNCHANGED <<file, side>>

\* one call of the match callback (337-394); on Matching::Terminate the
\* scan returns Err(ScanTerminated) and the loop breaks (395-400)
Callback ==
    /\ pc = "scan"
    /\ k <= Len(CurOccs)
    /\ match_count' = match_count + 1
    /\ IF CeilingExceeded(match_count', max_matches)
       THEN /\ terminated' = TRUE
            /\ pc' = "flush"
            /\ UNCHANGED <<k, mi, displayed, printed>>
       ELSE /\ LET i == CurFrame
                   time == CurTime
                   r == CurOccs[k]
               IN  IF mi = <<>>
                   THEN /\ mi' = <<OpenSpan(i, time, frame_text, r)>>
                        /\ UNCHANGED <<displayed, printed>>
                   ELSE IF Contiguous(i, mi[1])
                   THEN /\ mi' = <<ExtendSpan(mi[1], i, time, frame_text, r)>>
                        /\ UNCHANGED <<displayed, printed>>
                   ELSE IF SameFrame(i, mi[1])
                   THEN /\ mi' = <<AppendRange(mi[1], r)>>
                        /\ UNCHANGED <<displayed, printed>>
                   ELSE /\ displayed' = Append(displayed, mi[1])
                        /\ printed' = Append(printed, PrintedFor(mi[1], list_only))
                        /\ mi' = <<RestartSpan(mi[1], i, time, frame_text, r)>>
            /\ k' = k + 1
            /\ UNCHANGED <<terminated, pc>>
    /\ UNCHANGED <<list_only, max_matches, frames, frame_text>>
    /\ UNCHANGED <<file, side>>

\* the scan returns Ok: the loop goes on to the next frame (395, 407)
ScanReturn ==
    /\ pc = "scan"
    /\ k > Len(CurOccs)
    /\ pc' = "pull"
    /\ UNCHANGED <<list_only, max_matches, frames, frame_text, k, match_count,
                   mi, terminated, displayed, printed>>
    /\ UNCHANGED <<file, side>>

\* mutant: search_file returns without displaying the last match
FinalFlushSkipsDisplay ==
    /\ pc = "flush"
    /\ pc' = "done"
    /\ UNCHANGED <<list_only, max_matches, frames, frame_text, k, match_count,
                   mi, terminated, displayed, printed>>
    /\ UNCHANGED <<file, side>>

\* "Display the last match" (408-411), then search_file returns
FinalFlush ==
    /\ pc = "flush"
    /\ IF mi # <<>>
       THEN /\ displayed' = Append(displayed, mi[1])
            /\ printed' = Append(printed, PrintedFor(mi[1], list_only))
       ELSE UNCHANGED <<displayed, printed>>
    /\ pc' = "done"
    /\ UNCHANGED <<list_only, max_matches, frames, frame_text, k, match_count,
                   mi, terminated>>
    /\ UNCHANGED <<file, side>>

\* one search_file call
Next ==
    \/ ReadHeader
    \/ NextFrame
    \/ EndOfStream
    \/ Callback
    \/ ScanReturn
    \/ FinalFlush

Spec == Init /\ [][Next]_vars

\* main's loop over args.files
MainNext ==
    \/ ReadHeader
    \/ NextFile
    \/ NextFrameMain
    \/ EndOfStream
    \/ Callback
    \/ ScanReturn
    \/ FinalFlush

MainSpec == Init /\ [][MainNext]_vars

\* ------------------------------------------------------------ type safety
TypeOK ==
    /\ list_only \in BOOLEAN
    /\ max_matches \in ArgsMaxMatches
    /\ Len(frames) <= MaxFrames
    /\ match_count \in Nat
    /\ Len(mi) <= 1
    /\ pc \in {"header", "pull", "scan", "flush", "done", "panicked"}
    /\ file \in 1..NumFiles

\* --------------------------------------------------- the recording so far
\* frame j (counted from 0) of the frames pulled so far
FrameIdx     == 0..(Len(frames) - 1)
FrameTime(j) == frames[j + 1].time
FrameText(j) == Flatten(frames[j + 1].lines)
FrameOccs(j) == Scan(FrameText(j))
Matching(j)  == FrameOccs(j) # <<>>

\* search_file is running its frame loop or the code after it
InSearch == pc \in {"pull", "scan", "flush"}

\* a match callback is about to run; it records its occurrence unless the
\* counter passes the ceiling
IsCallback == pc = "scan" /\ k <= Len(CurOccs)
Recording  == IsCallback /\ match_count + 1 <= max_matches

\* the spans the program holds or has flushed
AllSpans == {displayed[n] : n \in 1..Len(displayed)} \cup {mi[n] : n \in 1..Len(mi)}

RECURSIVE OccsThrough(_)
OccsThrough(j) == IF j < 0 THEN 0 ELSE Len(FrameOccs(j)) + OccsThrough(j - 1)

\* frame i has a match, frame i+1 has none, frame i+2 has a match
GapAt(i) ==
    /\ i \in FrameIdx /\ i + 2 \in FrameIdx
    /\ Matching(i) /\ ~Matching(i + 1) /\ Matching(i + 2)

\* two spans flushed one after the other, the first ending at frame i and
\* the second starting at frame i+2
TwoSpansAround(i) ==
    \E n \in 1..(Len(displayed) - 1) :
        /\ displayed[n].end_frame = i
        /\ displayed[n + 1].start_frame = i + 2

\* C2 as stated: for any frame sequence in which frame i has a match, frame
\* i+1 has no match and frame i+2 has a match, search_file has flushed, when
\* it returns, two distinct spans: the one ending at frame i first and the
\* one starting at frame i+2 second.
C2_GapGivesTwoSpans ==
    pc = "done" => \A i \in FrameIdx : GapAt(i) => TwoSpansAround(i)

\* C2 amended: the same, provided the match ceiling is not exceeded up to
\* and including the first occurrence of frame i+2.
C2_GapGivesTwoSpansBelowCeiling ==
    pc = "done" =>
        \A i \in FrameIdx :
            (GapAt(i) /\ OccsThrough(i + 1) + 1 <= max_matches)
            => TwoSpansAround(i)

\* Scenario C has run to its end under a finite ceiling that was not exceeded
\* by frame 2: spans [0,0] and [2,2] were flushed in this order
C2_Witness ==
    /\ pc = "done"
    /\ GapAt(0)
    /\ max_matches = 2
    /\ Len(displayed) = 2
    /\ displayed[1].start_frame = 0 /\ displayed[1].end_frame = 0
    /\ displayed[2].start_frame = 2

\* ---------------------------------------------------------------------- C3
\* frames a..b all produce a match and the run cannot be widened
MaximalRun(a, b) ==
    /\ a \in FrameIdx /\ b \in FrameIdx /\ a <= b
    /\ \A j \in a..b : Matching(j)
    /\ (a - 1 \in FrameIdx => ~Matching(a - 1))
    /\ (b + 1 \in FrameIdx => ~Matching(b + 1))

SpansTouching(a, b) ==
    {n \in 1..Len(displayed) :
        displayed[n].start_frame <= b /\ displayed[n].end_frame >= a}

\* C3: when search_file returns without having reached the ceiling, every run
\* of k >= 2 immediately consecutive matching frames was flushed as exactly
\* one span, from the index and timestamp of the run's first frame to the
\* index and timestamp of its last frame.
C3_OneSpanPerRun ==
    (pc = "done" /\ ~terminated) =>
        \A a \in FrameIdx : \A b \in FrameIdx :
            (MaximalRun(a, b) /\ b >= a + 1) =>
                /\ Cardinality(SpansTouching(a, b)) = 1
                /\ \A n \in SpansTouching(a, b) :
                     /\ displayed[n].start_frame = a
                     /\ displayed[n].start_ts = FrameTime(a)
                     /\ displayed[n].end_frame = b
                     /\ displayed[n].end_ts = FrameTime(b)

\* Scenario B, with different timestamps on its two frames, has run to its
\* end: one span [0,1] was flushed
C3_Witness ==
    /\ pc = "done" /\ ~terminated
    /\ MaximalRun(0, 1)
    /\ FrameTime(0) # FrameTime(1)
    /\ Len(displayed) = 1
    /\ displayed[1].start_frame = 0 /\ displayed[1].end_frame = 1

\* ---------------------------------------------------------------------- C4
IsPrefix(s, t) == Len(s) <= Len(t) /\ SubSeq(t, 1, Len(s)) = s

\* C4: every span, open or flushed, carries the flattened text of the frame
\* whose index is its end_frame, and its ranges are occurrences reported for
\* that frame only (the first ones reported, in callback order).
C4_TextAndRangesOfEndFrame ==
    \A m \in AllSpans :
        /\ m.end_frame \in FrameIdx
        /\ m.last_frame_text = FrameText(m.end_frame)
        /\ IsPrefix(m.match_ranges, FrameOccs(m.end_frame))

\* an open span was extended from a frame with two occurrences to a frame
\* with another text and one occurrence
C4_Witness ==
    /\ mi # <<>>
    /\ mi[1].end_frame = mi[1].start_frame + 1
    /\ Len(FrameOccs(mi[1].start_frame)) = 2
    /\ FrameText(mi[1].start_frame) # FrameText(mi[1].end_frame)
    /\ pc = "pull"

\* ---------------------------------------------------------------------- C5
\* the frame with index j was scanned to its last occurrence
ScannedWhole(j) == ~terminated \/ j < CurFrame

\* C5: below the ceiling, the second and every later occurrence of a frame is
\* appended to the open span's match_ranges, leaving the span's other fields
\* alone and flushing nothing; so a span flushed for a single matching frame
\* with n occurrences has exactly those n ranges.
C5_SameFrameAppends ==
    /\ [][(Recording /\ k >= 2)
          => (/\ mi # <<>>
              /\ mi' = <<[mi[1] EXCEPT !.match_ranges = Append(@, CurOccs[k])]>>
              /\ displayed' = displayed
              /\ printed' = printed)]_vars
    /\ [](\A n \in 1..Len(displayed) :
            (/\ displayed[n].start_frame = displayed[n].end_frame
             /\ ScannedWhole(displayed[n].end_frame))
            => displayed[n].match_ranges = FrameOccs(displayed[n].end_frame))

\* Scenario D: a span for a single frame was flushed with two ranges
C5_Witness ==
    /\ Len(displayed) >= 1
    /\ displayed[1].start_frame = displayed[1].end_frame
    /\ Len(displayed[1].match_ranges) = 2

\* ---------------------------------------------------------------------- C6
RangesAscending(rs) ==
    \A a \in 1..Len(rs) : \A b \in 1..Len(rs) :
        a < b => (rs[a].from < rs[b].from /\ rs[a].to <= rs[b].from)

RangesInside(rs, text) ==
    \A a \in 1..Len(rs) :
        0 <= rs[a].from /\ rs[a].from <= rs[a].to /\ rs[a].to <= Len(text)

\* C6: with a matcher that reports each frame's occurrences ascending,
\* non-overlapping and inside the frame text, every span handed to
\* display_match has strictly ascending, mutually non-overlapping ranges,
\* each inside [0, length(last_frame_text)].
C6_FlushedRangesOrderedInside ==
    \A n \in 1..Len(displayed) :
        /\ RangesAscending(displayed[n].match_ranges)
        /\ RangesInside(displayed[n].match_ranges, displayed[n].last_frame_text)

\* a span that was opened, appended to, extended to a shorter text and then
\* flushed by a gap
C6_Witness ==
    /\ Len(displayed) >= 1
    /\ displayed[1].end_frame = displayed[1].start_frame + 1
    /\ Len(FrameOccs(displayed[1].start_frame)) = 2
    /\ Len(FrameText(displayed[1].end_frame))
         < Len(FrameText(displayed[1].start_frame))
    /\ mi # <<>> /\ mi[1].start_frame > displayed[1].end_frame

\* ---------------------------------------------------------------------- C7
\* C7: every span held or flushed has start_frame <= end_frame (so nframes
\* is at least 1), and spans are flushed in non-decreasing start_frame order.
C7_StartBeforeEndAndOrdered ==
    /\ \A m \in AllSpans : m.start_frame <= m.end_frame
    /\ \A n \in 1..Len(printed) :
         printed[n].kind = "span" => printed[n].nframes >= 1
    /\ \A a \in 1..Len(displayed) : \A b \in 1..Len(displayed) :
         a < b => displayed[a].start_frame <= displayed[b].start_frame

\* two spans were flushed, the first over two frames, and a third is open
C7_Witness ==
    /\ Len(displayed) = 2
    /\ displayed[1].start_frame < displayed[1].end_frame
    /\ displayed[2].start_frame > displayed[1].end_frame
    /\ ~list_only

\* ---------------------------------------------------------------------- C8
\* C8 as stated: in list-only mode, once a frame has produced a match, no
\* later frame of the file is pulled and scanned.
C8_NoFrameScannedAfterFirstMatch ==
    list_only => \A j \in FrameIdx : Matching(j) => j = CurFrame

\* ---------------------------------------------------------------------- C9
\* C9: in list-only mode display_match is called at most once for the file
\* and prints the file name only; when search_file returns, the name was
\* printed exactly once if some frame of the file matched and not at all
\* otherwise.
C9_ListOnlyPrintsNameOnce ==
    list_only =>
        /\ Len(displayed) <= 1
        /\ Len(printed) = Len(displayed)
        /\ \A n \in 1..Len(printed) : printed[n] = [kind |-> "filename"]
        /\ pc = "done" =>
             (Len(printed) = 1 <=> \E j \in FrameIdx : Matching(j))
        /\ pc = "done" =>
             (Len(printed) = 0 <=> \A j \in FrameIdx : ~Matching(j))

\* list-only mode over a recording with matches on frames 0 and 2 and a gap
\* on frame 1: the name was printed once
C9_Witness ==
    /\ list_only
    /\ pc = "done"
    /\ GapAt(0)
    /\ Len(printed) = 1

\* --------------------------------------------------------------------- C10
\* what the code after the frame loop does with the open span
FlushedAtEnd == IF mi = <<>> THEN displayed ELSE Append(displayed, mi[1])

\* C10: while a file is searched match_count changes only in a match
\* callback, by exactly one (each search_file call starts its own count); the
\* first callback at which it exceeds the ceiling records nothing and ends
\* the scan and the frame loop; from then on no frame is pulled and no
\* callback runs, and the open span (if any) is flushed exactly as after a
\* natural end of the stream, after which search_file has returned.
C10_CeilingTermination ==
    [][/\ IsCallback => match_count' = match_count + 1
       /\ IsCallback =>
            IF match_count + 1 > max_matches
            THEN /\ terminated' /\ pc' = "flush"
                 /\ mi' = mi /\ displayed' = displayed
            ELSE ~terminated' /\ pc' = "scan"
       /\ (~IsCallback /\ pc # "header") =>
            (match_count' = match_count /\ terminated' = terminated)
       /\ (terminated /\ InSearch) =>
            (frames' = frames /\ k' = k /\ pc = "flush")
       /\ pc = "flush" =>
            (pc' = "done" /\ mi' = mi /\ displayed' = FlushedAtEnd)]_vars

\* the ceiling ended the scan while a span was open; the span was flushed
\* and search_file returned with frames still unscanned
C10_Witness ==
    /\ terminated
    /\ pc = "done"
    /\ mi # <<>>
    /\ displayed = <<mi[1]>>
    /\ k < Len(CurOccs)
    /\ max_matches = 1 /\ ~list_only

\* --------------------------------------------------------------------- C11
\* C11: at most one span is open at any instant; an open span stays open
\* until it is handed to display_match, which happens exactly once, either
\* when a gap occurrence replaces it by a new span or when search_file
\* returns after the frame stream ended (naturally or by the ceiling); no
\* span is displayed twice.
C11_EverySpanFlushedOnce ==
    /\ [][InSearch =>
            /\ (mi # <<>> => mi' # <<>>)
            /\ (displayed' # displayed =>
                  /\ mi # <<>>
                  /\ displayed' = Append(displayed, mi[1])
                  /\ (pc' = "done" \/ mi'[1].start_frame > mi[1].start_frame))
            /\ ((mi # <<>> /\ mi'[1].start_frame # mi[1].start_frame)
                  => displayed' = Append(displayed, mi[1]))
            /\ ((pc' = "done" /\ mi # <<>>)
                  => displayed' = Append(displayed, mi[1]))]_vars
    /\ [](Len(mi) <= 1)
    /\ [](\A a \in 1..Len(displayed) : \A b \in 1..Len(displayed) :
            a < b => displayed[a].start_frame < displayed[b].start_frame)

\* one span was flushed by a gap occurrence and the next one after the
\* ceiling ended the scan
C11_Witness ==
    /\ pc = "done"
    /\ terminated
    /\ Len(displayed) = 2
    /\ mi # <<>> /\ displayed[2] = mi[1]
    /\ displayed[1].end_frame + 1 < displayed[2].start_frame

\* ----------------------------------------------- specifications of parts
\* the state of a run in which search_file and main do nothing
SearchIdle ==
    /\ list_only = FALSE
    /\ max_matches = UsizeMax
    /\ frames = <<>>
    /\ frame_text = <<>>
    /\ k = 1
    /\ match_count = 0
    /\ mi = <<>>
    /\ terminated = FALSE
    /\ displayed = <<>>
    /\ printed = <<>>
    /\ file = 1

\* --------------------------------------------------------------------- C12
\* the viewports handed to the row loop of search_file (328-336)
FlatRow == [1..FlatWidth -> RowChars]
FlatViewports == [1..FlatHeight -> FlatRow]

FlattenInit ==
    /\ SearchIdle
    /\ fed = <<>>
    /\ prev_cursor = <<>>
    /\ fn_in \in FlatViewports
    /\ fn_out = <<>>
    /\ pc = "flatten"

\* frame_text.clear() and the row loop, on the viewport fn_in
ApplyFlatten ==
    /\ pc = "flatten"
    /\ fn_out' = <<Flatten(fn_in)>>
    /\ pc' = "flattened"
    /\ UNCHANGED <<list_only, max_matches, search, file, fed, prev_cursor,
                   fn_in>>

FlattenSpec == FlattenInit /\ [][ApplyFlatten]_vars

\* a row without its trailing whitespace
RightTrimmed(row) == SubSeq(row, 1, TrimEndLen(row))

\* text, followed by the right-trimmed non-empty rows r.. of a viewport,
\* with one newline between successive non-empty rows
RECURSIVE JoinRowsFrom(_, _, _)
JoinRowsFrom(lines, r, text) ==
    IF r > Len(lines) THEN text
    ELSE LET row == RightTrimmed(lines[r])
         IN  IF row = <<>> THEN JoinRowsFrom(lines, r + 1, text)
             ELSE IF text = <<>> THEN JoinRowsFrom(lines, r + 1, row)
             ELSE JoinRowsFrom(lines, r + 1, text \o <<NL>> \o row)

\* C12 as stated: for every viewport, frame_text is the right-trimmed
\* non-empty rows, top to bottom, with exactly one newline between each pair
\* of successive non-empty rows; a blank row adds nothing and removes nothing.
C12_FlattenJoinsNonEmptyRows ==
    pc = "flattened" => fn_out[1] = JoinRowsFrom(fn_in, 1, <<>>)

\* --------------------------------------------------------------------- C13
\* events() and frames() (117-175) over the records that follow the header.
\* A record is a line that does not decode ("malformed"), an entry of
\* another kind than the selected one ("other"), or an entry of the selected
\* kind ("selected"), whose data is fed to the terminal emulator.
\* vt.cursor().into(): None (<<>>) or a position
CursorValues == {<<>>, <<0, 0>>, <<0, 1>>}

\* mutant: only changed rows make a frame
EmitsFrameOnChangeOnly(changed, cursor, prev) == changed

\* `if !changed_lines.is_empty() || cursor != prev_cursor` (159)
EmitsFrame(changed, cursor, prev) == changed \/ cursor # prev

\* frames emitted so far: enumerate() gives the next one this index (327)
NumEmitted == Cardinality({n \in 1..Len(fed) : fed[n].emitted})

EventInit ==
    /\ SearchIdle
    /\ fed = <<>>
    /\ prev_cursor = <<>>
    /\ fn_in = <<>>
    /\ fn_out = <<>>
    /\ pc = "events"

\* events(): a line that is not an entry of the selected kind is dropped by
\* the filter_map closure (121-128) and the next line is read
SkipRecord ==
    /\ pc = "events"
    /\ Len(fed) < MaxRecords
    /\ \E kind \in {"malformed", "other"} :
          fed' = Append(fed, [kind |-> kind, changed |-> FALSE, cursor |-> <<>>,
                              emitted |-> FALSE, index |-> -1])
    /\ UNCHANGED <<list_only, max_matches, search, pc, file, prev_cursor,
                   fn_in, fn_out>>

\* frames(): an entry of the selected kind is fed to the emulator, which
\* reports the changed rows and the cursor; a frame is emitted or not
\* (149-174)
FeedEvent ==
    /\ pc = "events"
    /\ Len(fed) < MaxRecords
    /\ \E changed \in BOOLEAN, cursor \in CursorValues :
          LET emit == EmitsFrame(changed, cursor, prev_cursor)
          IN  /\ fed' = Append(fed, [kind |-> "selected", changed |-> changed,
                                     cursor |-> cursor, emitted |-> emit,
                                     index |-> IF emit THEN NumEmitted ELSE -1])
              /\ prev_cursor' = cursor
    /\ UNCHANGED <<list_only, max_matches, search, pc, file, fn_in, fn_out>>

\* reader.lines() is exhausted
EndOfRecords ==
    /\ pc = "events"
    /\ pc' = "eof"
    /\ UNCHANGED <<list_only, max_matches, search, file, fed, prev_cursor,
                   fn_in, fn_out>>

EventNext ==
    \/ SkipRecord
    \/ FeedEvent
    \/ EndOfRecords

EventSpec == EventInit /\ [][EventNext]_vars

\* the cursor reported at the last emission before record n, None if no frame
\* was emitted before it
RECURSIVE CursorAtLastEmission(_)
CursorAtLastEmission(n) ==
    IF n < 1 THEN <<>>
    ELSE IF fed[n].emitted THEN fed[n].cursor
    ELSE CursorAtLastEmission(n - 1)

EmittedBefore(n) == Cardinality({m \in 1..(n - 1) : fed[m].emitted})

\* C13: frames() emits a frame for an event exactly when the emulator
\* reported a changed row or the cursor after the event differs from the
\* cursor at the previous emission (None before the first one); the emitted
\* frames are numbered from 0 in emission order and nothing else is numbered.
C13_EmitOnChangeOrCursorMove ==
    \A n \in 1..Len(fed) :
        /\ fed[n].kind = "selected" =>
             (fed[n].emitted <=>
                (fed[n].changed \/ fed[n].cursor # CursorAtLastEmission(n - 1)))
        /\ fed[n].kind # "selected" => ~fed[n].emitted
        /\ fed[n].index = IF fed[n].emitted THEN EmittedBefore(n) ELSE -1

\* a frame, then an event that changed nothing and emitted nothing, then a
\* frame emitted for a cursor move alone: frames 0 and 1
C13_Witness ==
    /\ Len(fed) = 3
    /\ fed[1].emitted /\ fed[1].index = 0
    /\ fed[2].kind = "selected" /\ ~fed[2].emitted
    /\ fed[3].emitted /\ ~fed[3].changed /\ fed[3].index = 1

\* --------------------------------------------------------------------- C14
\* C14 as stated: a malformed record ends the file's stream; no event
\* located after it is fed to the frame reconstructor.
C14_MalformedRecordEndsStream ==
    \A n \in 1..Len(fed) :
        fed[n].kind = "selected" =>
            \A m \in 1..(n - 1) : fed[m].kind # "malformed"

\* --------------------------------------------------------------------- C15
\* C15 as stated: a malformed header is not a run-level failure; the run
\* never aborts on it and goes on to the later files.
C15_MalformedHeaderDoesNotAbort == pc # "panicked"

\* --------------------------------------------------------------------- C18
\* the match callbacks that have run for the current file
CallbacksRun ==
    IF pc = "scan" THEN OccsThrough(CurFrame - 1) + (k - 1)
    ELSE IF terminated THEN OccsThrough(CurFrame - 1) + k
    ELSE OccsThrough(CurFrame)

\* C18: main moves from one file to the next only when search_file has
\* returned, in command-line order; each file starts with no open span, a
\* zero match counter and frame index 0, so at every point the counter, the
\* ceiling test and the spans of a file depend on that file's frames alone,
\* after whatever happened in the files before it.
C18_FilesShareNoState ==
    /\ [][file' # file =>
            (pc = "done" /\ file' = file + 1 /\ pc' = "header")]_vars
    /\ []((InSearch \/ pc = "done") =>
            /\ match_count = CallbacksRun
            /\ (terminated <=> match_count > max_matches)
            /\ (frames = <<>> => (mi = <<>> /\ displayed = <<>>))
            /\ \A m \in AllSpans :
                 /\ m.start_frame \in FrameIdx /\ m.end_frame \in FrameIdx
                 /\ Matching(m.start_frame)
                 /\ m.last_frame_text = FrameText(m.end_frame))

\* the second file was searched under a ceiling of 1 and reported its own
\* first match before the ceiling ended its scan
C18_Witness ==
    /\ file = 2
    /\ pc = "done"
    /\ max_matches = 1
    /\ terminated
    /\ Len(displayed) = 1
    /\ displayed[1].start_frame = 0

\* ------------------------------------------------------------- Presenter
\* display_match on any span a conformant matcher can produce: a text, one
\* or more ranges that are ascending, non-overlapping, non-empty and inside
\* the text, and the display options.
COLOR_RED   == "<RED>"
COLOR_RESET == "<RESET>"
TextChars == {"x", "a", NL}

TextsOfLen(n) == [1..n -> TextChars]
Texts == UNION {TextsOfLen(n) : n \in 0..MaxTextLen}

RangesOn(text) ==
    [from : 0..Len(text), to : 0..Len(text)]

RangeListsOn(text) ==
    {rs \in UNION {[1..n -> RangesOn(text)] : n \in 1..MaxRanges} :
        /\ \A a \in 1..Len(rs) : rs[a].from < rs[a].to
        /\ \A a \in 1..(Len(rs) - 1) : rs[a].to <= rs[a + 1].from}

\* the markers highlight_matches pushes before character i (201-208)
RECURSIVE MarkersAt(_, _, _, _)
MarkersAt(i, ranges, n, use_color) ==
    IF n > Len(ranges) THEN <<>>
    ELSE (IF use_color /\ i = ranges[n].from THEN <<COLOR_RED>> ELSE <<>>)
         \o (IF use_color /\ i = ranges[n].to THEN <<COLOR_RESET>> ELSE <<>>)
         \o MarkersAt(i, ranges, n + 1, use_color)

\* the loop `for (i, ch) in last_frame_text.chars().enumerate()` (200-210)
RECURSIVE HighlightFrom(_, _, _, _)
HighlightFrom(text, ranges, use_color, i) ==
    IF i >= Len(text) THEN <<>>
    ELSE MarkersAt(i, ranges, 1, use_color) \o <<text[i + 1]>>
         \o HighlightFrom(text, ranges, use_color, i + 1)

\* highlight_matches (190-212)
HighlightMatches(text, ranges, use_color) ==
    HighlightFrom(text, ranges, use_color, 0)

\* the pieces of a text between its newlines
RECURSIVE SplitFrom(_, _, _)
SplitFrom(text, p, cur) ==
    IF p > Len(text) THEN <<cur>>
    ELSE IF text[p] = NL THEN <<cur>> \o SplitFrom(text, p + 1, <<>>)
    ELSE SplitFrom(text, p + 1, Append(cur, text[p]))

\* str::lines(): a final newline does not start another line
Lines(text) ==
    LET pieces == SplitFrom(text, 1, <<>>)
    IN  IF pieces[Len(pieces)] = <<>>
        THEN SubSeq(pieces, 1, Len(pieces) - 1)
        ELSE pieces

\* the loop over match_ranges for one line (230-243): line_text and line_pos
RECURSIVE LineTextFrom(_, _, _, _, _, _, _)
LineTextFrom(line, pos, ranges, n, use_color, line_text, line_pos) ==
    IF n > Len(ranges) THEN [line_text |-> line_text, line_pos |-> line_pos]
    ELSE LET from == ranges[n].from
             to   == ranges[n].to
         IN  IF from >= pos /\ to <= pos + Len(line)
             THEN LineTextFrom(line, pos, ranges, n + 1, use_color,
                      line_text
                          \o SubSeq(line, line_pos + 1, from - pos)
                          \o (IF use_color THEN <<COLOR_RED>> ELSE <<>>)
                          \o SubSeq(line, from - pos + 1, to - pos)
                          \o (IF use_color THEN <<COLOR_RESET>> ELSE <<>>),
                      to - pos)
             ELSE LineTextFrom(line, pos, ranges, n + 1, use_color,
                               line_text, line_pos)

\* the loop over the lines (226-255); an output line is its number prefix
\* (format!("{:4}: ", i + 1), or nothing) and its text
RECURSIVE MatchLinesFrom(_, _, _, _, _, _)
MatchLinesFrom(lines, i, pos, ranges, use_color, show_line_numbers) ==
    IF i >= Len(lines) THEN <<>>
    ELSE LET line == lines[i + 1]
             res  == LineTextFrom(line, pos, ranges, 1, use_color, <<>>, 0)
             line_text ==
                 IF res.line_pos # 0
                 THEN res.line_text \o SubSeq(line, res.line_pos + 1, Len(line))
                 ELSE res.line_text
         IN  (IF line_text # <<>>
              THEN <<[line |-> i,
                      prefix |-> IF show_line_numbers THEN <<i + 1>> ELSE <<>>,
                      text |-> line_text]>>
              ELSE <<>>)
             \o MatchLinesFrom(lines, i + 1, pos + Len(line) + 1, ranges,
                               use_color, show_line_numbers)

\* highlight_matchlines (214-257)
HighlightMatchlines(text, ranges, use_color, show_line_numbers) ==
    MatchLinesFrom(Lines(text), 0, 0, ranges, use_color, show_line_numbers)

PresentInit ==
    /\ SearchIdle
    /\ fed = <<>>
    /\ prev_cursor = <<>>
    /\ \E text \in Texts : \E ranges \in RangeListsOn(text) :
       \E full \in BOOLEAN, numbers \in BOOLEAN, color \in BOOLEAN :
          fn_in = [last_frame_text |-> text, match_ranges |-> ranges,
                   show_full_frame |-> full, show_line_numbers |-> numbers,
                   use_color |-> color]
    /\ fn_out = <<>>
    /\ pc = "display"

\* the body display_match prints after the header line (278-283)
PrintBody ==
    /\ pc = "display"
    /\ fn_out' = <<IF fn_in.show_full_frame
                   THEN HighlightMatches(fn_in.last_frame_text,
                                         fn_in.match_ranges, fn_in.use_color)
                   ELSE HighlightMatchlines(fn_in.last_frame_text,
                                            fn_in.match_ranges, fn_in.use_color,
                                            fn_in.show_line_numbers)>>
    /\ pc' = "displayed"
    /\ UNCHANGED <<list_only, max_matches, search, file, fed, prev_cursor,
                   fn_in>>

PresentSpec == PresentInit /\ [][PrintBody]_vars

\* --------------------------------------------------------------------- C16
IsMarker(tok) == tok \in {COLOR_RED, COLOR_RESET}

\* an output without its markers
RECURSIVE Strip(_)
Strip(out) ==
    IF out = <<>> THEN <<>>
    ELSE IF IsMarker(out[1]) THEN Strip(SubSeq(out, 2, Len(out)))
    ELSE <<out[1]>> \o Strip(SubSeq(out, 2, Len(out)))

\* the positions of out that hold marker tok with exactly p characters of the
\* text before them
MarkersBefore(out, tok, p) ==
    {j \in 1..Len(out) :
        out[j] = tok /\ Len(Strip(SubSeq(out, 1, j - 1))) = p}

\* C16 as stated: in full-frame mode with coloring enabled, the output is the
\* whole text with, for every range wherever it lies, exactly one start
\* marker at from and exactly one reset marker at to: as many resets as
\* starts.
C16_EveryHighlightClosed ==
    (pc = "displayed" /\ fn_in.show_full_frame /\ fn_in.use_color) =>
        LET out    == fn_out[1]
            ranges == fn_in.match_ranges
        IN  /\ Strip(out) = fn_in.last_frame_text
            /\ \A n \in 1..Len(ranges) :
                 /\ Cardinality(MarkersBefore(out, COLOR_RED, ranges[n].from)) = 1
                 /\ Cardinality(MarkersBefore(out, COLOR_RESET, ranges[n].to)) = 1
            /\ Cardinality({j \in 1..Len(out) : out[j] = COLOR_RED})
                 = Cardinality({j \in 1..Len(out) : out[j] = COLOR_RESET})

\* --------------------------------------------------------------------- C17
\* offset of line i (from 0) in the text it was split from
RECURSIVE LineStart(_, _)
LineStart(lines, i) ==
    IF i = 0 THEN 0 ELSE LineStart(lines, i - 1) + Len(lines[i]) + 1

\* line i shares at least one character with some range
LineIntersects(lines, i, ranges) ==
    \E n \in 1..Len(ranges) :
        /\ ranges[n].from < LineStart(lines, i) + Len(lines[i + 1])
        /\ ranges[n].to > LineStart(lines, i)

\* C17 as stated: in line-only mode a line of the text is emitted exactly
\* when it intersects at least one range, whether the range lies inside one
\* line or crosses a newline; each emitted line carries its full text, after
\* its 1-based line number when line numbers are requested.
C17_IntersectingLinesEmitted ==
    (pc = "displayed" /\ ~fn_in.show_full_frame) =>
        LET out   == fn_out[1]
            lines == Lines(fn_in.last_frame_text)
        IN  /\ {out[j].line : j \in 1..Len(out)}
                 = {i \in 0..(Len(lines) - 1) :
                      LineIntersects(lines, i, fn_in.match_ranges)}
            /\ \A j \in 1..Len(out) :
                 /\ Strip(out[j].text) = lines[out[j].line + 1]
                 /\ out[j].prefix = IF fn_in.show_line_numbers
                                    THEN <<out[j].line + 1>> ELSE <<>>

\* --------------------------------------------------------------------- C19
\* C19: every raw frame index from start_frame to end_frame of a flushed
\* span belongs to a frame that produced a match, and of two spans flushed
\* one after the other the later starts at least two indices after the end
\* of the earlier, with a frame that produced no match between them.
C19_SpansCoverMatchingFramesOnly ==
    /\ \A n \in 1..Len(displayed) :
         \A j \in displayed[n].start_frame..displayed[n].end_frame :
            j \in FrameIdx /\ Matching(j)
    /\ \A n \in 1..(Len(displayed) - 1) :
         /\ displayed[n + 1].start_frame >= displayed[n].end_frame + 2
         /\ \E j \in (displayed[n].end_frame + 1)..(displayed[n + 1].start_frame - 1) :
               ~Matching(j)

\* a span of two frames, one frame without a match, then another span
C19_Witness ==
    /\ pc = "done"
    /\ Len(displayed) = 2
    /\ displayed[1].end_frame = displayed[1].start_frame + 1
    /\ displayed[2].start_frame = displayed[1].end_frame + 2
    /\ ~terminated

\* --------------------------------------------------------------------- C20
Min(a, b) == IF a <= b THEN a ELSE b

\* the spans flushed once search_file has returned: those displayed so far
\* and, until the final flush has run, the open one
FlushedAtReturn == IF pc = "done" THEN displayed ELSE FlushedAtEnd

\* C20: a callback changes the open span exactly when its occurrence does
\* not take the counter past the ceiling N, so the occurrences recorded are
\* min(N, occurrences reported); the spans flushed for the file, the open
\* one included, never number more than that; with N = 0 no span is ever
\* opened and nothing is displayed.
C20_OccurrencePastCeilingNotRecorded ==
    /\ [][IsCallback =>
            /\ (mi' # mi) <=> (match_count + 1 <= max_matches)
            /\ (displayed' # displayed) => (match_count + 1 <= max_matches)]_vars
    /\ [](Len(FlushedAtReturn) <= Min(max_matches, match_count))
    /\ [](max_matches = 0 => (mi = <<>> /\ displayed = <<>> /\ printed = <<>>))

\* two occurrences were recorded as two spans and the third ended the scan
C20_Witness ==
    /\ pc = "done"
    /\ terminated
    /\ max_matches = 2 /\ ~list_only
    /\ match_count = 3
    /\ Len(displayed) = 2
    /\ Len(printed) = 2

====
